---------------------------- MODULE Spec2Model ----------------------------
(***************************************************************************)
(* A model of the discounted_stocks repository:                            *)
(*   - the scoring functions (StandardDiscountCalculator,                  *)
(*     FundamentalMarketDiscountEvaluator),                                *)
(*   - the report run StockAnalyzer.analyze_stocks and the Telegram        *)
(*     notifier it delivers through,                                       *)
(*   - the three report endpoints of the FastAPI application,              *)
(*   - the symbol ingestion job of save_stocks.py.                         *)
(*                                                                         *)
(* Python values are modelled as tagged cells so that None, numbers and    *)
(* strings can be compared: Num(n), Txt(s), NoneV.  Floats of the scoring  *)
(* functions are exact rationals [num, den] with den > 0.                  *)
(***************************************************************************)
EXTENDS Integers, Sequences, FiniteSets, TLC

VARIABLES
    \* ---- scoring functions called on their own
    arg_info,        \* the snapshot handed to calculate_discount / evaluate_status
    arg_pct,         \* the discount percent handed to evaluate_status
    ret_discount,    \* what calculate_discount returned (NotCalled before the call)
    ret_status,      \* what evaluate_status returned ("" before the call)
    \* ---- report server
    store,           \* the symbol list the store holds (rows of the stocks table / CSV)
    token_set,       \* whether TELEGRAM_TOKEN is in os.environ
    request,         \* the request being served (NoRequest before it arrives)
    response,        \* the HTTP answer (NoResponse before the handler returns)
    tasks,           \* background_tasks of the request: the scheduled runs
    \* ---- one StockAnalyzer.analyze_stocks run
    stocks,          \* the argument of analyze_stocks
    only_discount,   \* StockAnalyzer.only_discount
    send_as_text_message, \* StockAnalyzer.send_as_text_message
    send_as_file,    \* StockAnalyzer.send_as_file
    pc,              \* where the run is: idle, loop, filter, text, file, done, raised
    infos,           \* what fetch_stock_info returned for the symbols processed so far
    built,           \* the rows appended by the loop, before the only_discount filter
    results,         \* the local variable results
    batch_i,         \* the loop variable i of the batching loop
    outbox,          \* the outbound chat-bot calls made, in order, with their outcome
    log,             \* what the notifier printed about failures
    exc,             \* the exception that ended the run ("" when none)
    \* ---- ingestion job
    csv_files,       \* the CSV files of the directory, in glob order
    job_pc,          \* where the job is: idle, read, process, save_db, save_file, done
    raw_data,        \* combined_data of CSVDataSource.get_data
    processed_data,  \* the result of StockDataProcessor.process_data
    db_table,        \* the rows of the stocks table
    db_before,       \* the rows the stocks table held when the job started
    snapshot_file,   \* the rows of the flat snapshot file (without its header)
    \* ---- SQLiteDatabaseConnection and the threads that use it
    instance_set,    \* whether cls._instance is an object (FALSE: None)
    connection,      \* cls._connection: 0 for None, else the connection's number
    lock_owner,      \* the thread inside `with cls._lock` (0: the lock is free)
    open_conns,      \* the connections sqlite3.connect has opened and nobody closed
    connects,        \* how many times sqlite3.connect has succeeded
    thread_pc,       \* where each thread is
    loaded,          \* the value of cls._connection each thread has loaded
    fresh,           \* the threads whose construction returned normally and that
                     \* no close_connection call has followed
    got              \* what each thread's last get_connection call gave

pure_vars   == <<arg_info, arg_pct, ret_discount, ret_status>>
server_vars == <<store, token_set, request, response, tasks>>
run_vars    == <<stocks, only_discount, send_as_text_message, send_as_file, pc,
                 infos, built, results, batch_i, outbox, log, exc>>
job_vars    == <<csv_files, job_pc, raw_data, processed_data, db_table, db_before,
                 snapshot_file>>
conn_vars   == <<instance_set, connection, lock_owner, open_conns, connects, thread_pc,
                 loaded, fresh, got>>
vars        == <<pure_vars, server_vars, run_vars, job_vars, conn_vars>>

-----------------------------------------------------------------------------
(* Python values *)

Num(n) == [t |-> "num", n |-> n, s |-> ""]
Txt(s) == [t |-> "str", n |-> 0, s |-> s]
NoneV  == [t |-> "None", n |-> 0, s |-> ""]

\* bool(v) of a number or None: None and 0 are falsy.
Truthy(v) == v.t = "num" /\ v.n # 0

\* Python's `a or b`: a when a is truthy, else b.
PyOr(a, b) == IF Truthy(a) THEN a ELSE b

\* dict.get(key): the value, or None when the key is absent.
Get(info, key) == IF key \in DOMAIN info THEN info[key] ELSE NoneV

\* A float as an exact rational, den > 0.
Rat(n, d) == [num |-> n, den |-> d]
RatGT(p, k) == p.num > k * p.den
RatLE(p, k) == p.num <= k * p.den
RatGE(p, k) == p.num >= k * p.den
RatEq(p, q) == p.num * q.den = q.num * p.den

-----------------------------------------------------------------------------
(* Scoring: StandardDiscountCalculator and FundamentalMarketDiscountEvaluator *)

\* calculate_discount returns the float 0.0 when it cannot score.
ZeroPct == Rat(0, 1)

\* ((high_52 - current_price) / high_52) * 100, as a rational with den > 0.
PctOffHigh(price, high) ==
    IF high > 0 THEN Rat((high - price) * 100, high)
                ELSE Rat((price - high) * 100, -high)

calculate_discount(info) ==
    LET current_price == PyOr(Get(info, "currentPrice"), Get(info, "regularMarketPrice"))
        high_52       == Get(info, "fiftyTwoWeekHigh")
    IN  IF Truthy(current_price) /\ Truthy(high_52)
        THEN PctOffHigh(current_price.n, high_52.n)
        ELSE ZeroPct

\* evaluate_status with the market clause written >= 20 (a mutant).
evaluate_status_ge(info, discount_pct) ==
    LET pe_ratio == Get(info, "trailingPE")
        pb_ratio == Get(info, "priceToBook")
        is_fundamental_discount ==
            (Truthy(pe_ratio) /\ pe_ratio.n < 20) /\ (Truthy(pb_ratio) /\ pb_ratio.n < 2)
        is_market_discount == RatGE(discount_pct, 20)
    IN  IF is_fundamental_discount \/ is_market_discount THEN "DISCOUNTED" ELSE "FAIR/HIGH"

\* `pe_ratio and pe_ratio < 20` is falsy when pe_ratio is None or 0, and else the
\* comparison; the whole condition is used for its truth value only.
evaluate_status(info, discount_pct) ==
    LET pe_ratio == Get(info, "trailingPE")
        pb_ratio == Get(info, "priceToBook")
        is_fundamental_discount ==
            (Truthy(pe_ratio) /\ pe_ratio.n < 20) /\ (Truthy(pb_ratio) /\ pb_ratio.n < 2)
        is_market_discount == RatGT(discount_pct, 20)
    IN  IF is_fundamental_discount \/ is_market_discount THEN "DISCOUNTED" ELSE "FAIR/HIGH"

-----------------------------------------------------------------------------
(* The snapshots the scoring functions are called on *)

ScoreKeys == {"currentPrice", "regularMarketPrice", "fiftyTwoWeekHigh",
              "trailingPE", "priceToBook"}

\* The numbers a provider field takes in the model; each set holds the values on
\* both sides of the thresholds, and 0.
FieldValues(key) ==
    CASE key = "currentPrice"       -> {0, 2, 9}
      [] key = "regularMarketPrice" -> {0, 8}
      [] key = "fiftyTwoWeekHigh"   -> {0, 3, 10}
      [] key = "trailingPE"         -> {-3, 0, 19, 20}
      [] key = "priceToBook"        -> {-1, 0, 1, 2}

Absent == [t |-> "absent", n |-> 0, s |-> ""]

\* A field is absent, present with the value None, or present with a number.
FieldChoices(key) == {Absent, NoneV} \cup {Num(n) : n \in FieldValues(key)}

SnapshotChoices == [currentPrice : FieldChoices("currentPrice"),
                    regularMarketPrice : FieldChoices("regularMarketPrice"),
                    fiftyTwoWeekHigh : FieldChoices("fiftyTwoWeekHigh"),
                    trailingPE : FieldChoices("trailingPE"),
                    priceToBook : FieldChoices("priceToBook")]

\* The dict of a choice: the keys that are present, with their values.
InfoOf(c) == [k \in {key \in ScoreKeys : c[key] # Absent} |-> c[k]]

AllInfos == {InfoOf(c) : c \in SnapshotChoices}

Percents == {Rat(-200, 1), Rat(0, 1), Rat(20, 1), Rat(2001, 100), Rat(100, 3)}

NotCalled == Rat(0, 0)

-----------------------------------------------------------------------------
(* Idle values of each part of the state *)

NoRequest  == [endpoint |-> "", industry |-> "", only_discount |-> FALSE,
               read_raises |-> FALSE]
NoResponse == [status |-> 0, body |-> ""]

PureIdle ==
    /\ arg_info = <<>>
    /\ arg_pct = NotCalled
    /\ ret_discount = NotCalled
    /\ ret_status = ""

ServerIdle ==
    /\ store = <<>>
    /\ token_set = TRUE
    /\ request = NoRequest
    /\ response = NoResponse
    /\ tasks = <<>>

RunIdle ==
    /\ stocks = <<>>
    /\ only_discount = TRUE
    /\ send_as_text_message = FALSE
    /\ send_as_file = TRUE
    /\ pc = "idle"
    /\ infos = <<>>
    /\ built = <<>>
    /\ results = <<>>
    /\ batch_i = 0
    /\ outbox = <<>>
    /\ log = <<>>
    /\ exc = ""

JobIdle ==
    /\ csv_files = <<>>
    /\ job_pc = "idle"
    /\ raw_data = <<>>
    /\ processed_data = <<>>
    /\ db_table = <<>>
    /\ db_before = <<>>
    /\ snapshot_file = <<>>

\* The most threads that use SQLiteDatabaseConnection in the model.
MaxThreads == 2

Threads == 1..MaxThreads

\* The class attributes as the class body sets them (lines 12-14), no thread running.
ConnIdle ==
    /\ instance_set = FALSE
    /\ connection = 0
    /\ lock_owner = 0
    /\ open_conns = {}
    /\ connects = 0
    /\ thread_pc = [t \in Threads |-> "idle"]
    /\ loaded = [t \in Threads |-> 0]
    /\ fresh = {}
    /\ got = [t \in Threads |-> "not called"]

-----------------------------------------------------------------------------
(* SpecPure: the scoring functions applied to every snapshot and percent *)

InitPure ==
    /\ arg_info \in AllInfos
    /\ arg_pct \in Percents
    /\ ret_discount = NotCalled
    /\ ret_status = ""
    /\ ServerIdle /\ RunIdle /\ JobIdle /\ ConnIdle

CallCalculate ==
    /\ ret_discount = NotCalled
    /\ ret_discount' = calculate_discount(arg_info)
    /\ UNCHANGED <<arg_info, arg_pct, ret_status, server_vars, run_vars, job_vars, conn_vars>>

CallEvaluate ==
    /\ ret_status = ""
    /\ ret_status' = evaluate_status(arg_info, arg_pct)
    /\ UNCHANGED <<arg_info, arg_pct, ret_discount, server_vars, run_vars, job_vars, conn_vars>>

NextPure == CallCalculate \/ CallEvaluate

SpecPure == InitPure /\ [][NextPure]_vars

-----------------------------------------------------------------------------
(* The symbol store and the stock data provider *)

\* The longest symbol list the store holds in the model.
MaxStocks == 3

Industries == <<"Information Technology", "Power">>

\* The k-th ticker, company name and ISIN: strings that differ with k.
Symbol(k)      == [t |-> "str", n |-> k, s |-> "symbol"]
CompanyName(k) == [t |-> "str", n |-> k, s |-> "company_name"]
Isin(k)        == [t |-> "str", n |-> k, s |-> "isin"]

\* A row of the stocks table (or of the flat CSV snapshot), as read_data returns it.
StockRecord(k) ==
    [symbol |-> Symbol(k), company_name |-> CompanyName(k),
     industry |-> Industries[(k % 2) + 1], isin |-> Isin(k)]

Injective(f) == \A a, b \in DOMAIN f : f[a] = f[b] => a = b

\* symbol is the primary key of the table: the lists hold each symbol once.
StoreLists ==
    {[j \in DOMAIN f |-> StockRecord(f[j])] :
        f \in {g \in UNION {[1..n -> 1..MaxStocks] : n \in 0..MaxStocks} : Injective(g)}}

EmptyInfo == [k \in {} |-> NoneV]

Snapshot(cur, high, pe, pb) ==
    [currentPrice |-> cur, fiftyTwoWeekHigh |-> high, trailingPE |-> pe, priceToBook |-> pb]

\* What yf.Ticker(symbol + ".NS").info does in the model: it raises, or returns one of
\* these snapshots: empty, without any scored field, discounted by its fundamentals,
\* fair, discounted by the market alone, and one with a price of 0.
FetchOutcomes ==
    {[raised |-> TRUE, info |-> EmptyInfo]} \cup
    {[raised |-> FALSE, info |-> x] : x \in
        {EmptyInfo,
         [trailingPegRatio |-> NoneV],
         Snapshot(Num(9), Num(10), Num(19), Num(1)),
         Snapshot(Num(9), Num(10), Num(20), Num(2)),
         [regularMarketPrice |-> Num(2), fiftyTwoWeekHigh |-> Num(3)],
         Snapshot(Num(0), Num(10), Num(0), Num(1))}}

\* YFinanceStockFetcher.fetch_stock_info: any exception gives the empty dict.
fetch_stock_info(outcome) ==
    IF outcome.raised THEN EmptyInfo ELSE outcome.info

\* `not info` of a dict.
IsEmptyInfo(info) == DOMAIN info = {}

-----------------------------------------------------------------------------
(* Report rows *)

RowFields == <<"Symbol", "CompanyName", "Price", "PE", "PB",
               "Discount % (52w High)", "Status">>

RowFieldSet == {RowFields[j] : j \in DOMAIN RowFields}

\* round(x, 2): the ratios of the model are whole numbers, which round(x, 2) keeps.
Round2(n) == n

\* f"{discount_pct:.2f}%": the percent to the nearest hundredth, as a string.
FormatPct(p) ==
    [t |-> "str", n |-> (2 * 100 * p.num + p.den) \div (2 * p.den), s |-> ".2f%"]

\* The dict appended to results for one symbol (lines 98-113).
BuildRow(stock, info) ==
    LET discount_pct  == calculate_discount(info)
        status        == evaluate_status(info, discount_pct)
        current_price == PyOr(Get(info, "currentPrice"), Get(info, "regularMarketPrice"))
        pe_ratio      == Get(info, "trailingPE")
        pb_ratio      == Get(info, "priceToBook")
    IN  [f \in RowFieldSet |->
            CASE f = "Symbol"      -> stock.symbol
              [] f = "CompanyName" -> stock.company_name
              [] f = "Price"       -> current_price
              [] f = "PE"          -> IF Truthy(pe_ratio) THEN Num(Round2(pe_ratio.n))
                                                          ELSE Txt("N/A")
              [] f = "PB"          -> IF Truthy(pb_ratio) THEN Num(Round2(pb_ratio.n))
                                                          ELSE Txt("N/A")
              [] f = "Discount % (52w High)" -> FormatPct(discount_pct)
              [] f = "Status"      -> Txt(status)]

IsDiscounted(item) == item["Status"] = Txt("DISCOUNTED")

\* The only_discount filter that keeps every row (a mutant).
FilterResults_keepall(rows, only) == rows

\* Lines 115-116.
FilterResults(rows, only) ==
    IF only THEN SelectSeq(rows, IsDiscounted) ELSE rows

-----------------------------------------------------------------------------
(* Serialisation *)

\* str(value) as csv.DictWriter writes a field: None is the empty string, a number
\* its decimal text.
CsvField(c) ==
    CASE c.t = "None" -> Txt("")
      [] c.t = "num"  -> [t |-> "str", n |-> c.n, s |-> "decimal"]
      [] OTHER        -> c

CsvLine(row, fieldnames) == [j \in DOMAIN fieldnames |-> CsvField(row[fieldnames[j]])]

\* writer.writeheader(); writer.writerows(results): the header line, then one line a row.
CsvText(fieldnames, rows) ==
    [fmt |-> "csv", header |-> fieldnames,
     rows |-> [j \in DOMAIN rows |-> CsvLine(rows[j], fieldnames)]]

\* json.dumps(rows, indent=2): the JSON array of the rows.
JsonText(rows) == [fmt |-> "json", header |-> <<>>, rows |-> rows]

\* "GiftFromDiscountedStocks_" + now.strftime("%Y%m%d-%H%M%S") + ".csv"
ReportFilename == "GiftFromDiscountedStocks_<%Y%m%d-%H%M%S>.csv"

batch_limit == 10

\* results[i:i+batch_limit] (i counted from 0).
Slice(rows, i, n) ==
    LET last == IF i + n < Len(rows) THEN i + n ELSE Len(rows)
    IN  [j \in 1..(last - i) |-> rows[i + j]]

-----------------------------------------------------------------------------
(* TelegramMessanger *)

\* What requests.post does: it answers 200, answers an HTTP error status, or raises
\* (a transport error).
NetOutcomes == {"ok", "http_error", "transport_error"}

Call(op, text, filename, outcome) ==
    [op |-> op, text |-> text, filename |-> filename, outcome |-> outcome]

\* send_message (lines 150-158) has no try: an exception of requests.post leaves it.
send_message_raises(outcome) == outcome = "transport_error"

\* print(resp.status_code); print(resp.text)
send_message_prints(outcome) ==
    <<[op |-> "sendMessage", printed |-> "status_code and text", outcome |-> outcome]>>

\* send_file (lines 160-174): requests.post and raise_for_status are inside the try.
send_file_raises(outcome) == FALSE

send_file_prints(outcome) ==
    IF outcome = "ok"
    THEN <<[op |-> "sendDocument", printed |-> "CSV sent successfully!", outcome |-> outcome]>>
    ELSE <<[op |-> "sendDocument", printed |-> "Failed to send file!", outcome |-> outcome]>>

-----------------------------------------------------------------------------
(* StockAnalyzer.analyze_stocks *)

\* The loop body without `if not info: continue` (a mutant).
AppendRow_noskip(rows, stock, info) == Append(rows, BuildRow(stock, info))

\* Lines 96-113: nothing for an empty snapshot, else the row at the end of results.
AppendRow(rows, stock, info) ==
    IF IsEmptyInfo(info) THEN rows ELSE Append(rows, BuildRow(stock, info))

\* StockAnalyzer.__init__ (lines 77-87).
NewAnalyzer(only) ==
    [only_discount |-> only, send_as_text_message |-> FALSE, send_as_file |-> TRUE]

\* The background task starts once the response is sent.
StartRun ==
    /\ pc = "idle"
    /\ response # NoResponse
    /\ tasks # <<>>
    /\ stocks' = tasks[1].stocks
    /\ only_discount' = tasks[1].analyzer.only_discount
    /\ send_as_text_message' = tasks[1].analyzer.send_as_text_message
    /\ send_as_file' = tasks[1].analyzer.send_as_file
    /\ pc' = "loop"
    /\ UNCHANGED <<infos, built, results, batch_i, outbox, log, exc>>
    /\ UNCHANGED <<pure_vars, server_vars, job_vars, conn_vars>>

\* One iteration of `for stock in stocks` (lines 91-113).
LoopStep ==
    /\ pc = "loop"
    /\ Len(infos) < Len(stocks)
    /\ \E outcome \in FetchOutcomes :
          LET stock == stocks[Len(infos) + 1]
              info  == fetch_stock_info(outcome)
          IN  /\ infos' = Append(infos, info)
              /\ results' = AppendRow(results, stock, info)
    /\ UNCHANGED <<stocks, only_discount, send_as_text_message, send_as_file, pc,
                   built, batch_i, outbox, log, exc>>
    /\ UNCHANGED <<pure_vars, server_vars, job_vars, conn_vars>>

\* The end of the loop and the only_discount filter (lines 115-116).
FilterStep ==
    /\ pc = "loop"
    /\ Len(infos) = Len(stocks)
    /\ built' = results
    /\ results' = FilterResults(results, only_discount)
    /\ pc' = "deliver"
    /\ UNCHANGED <<stocks, only_discount, send_as_text_message, send_as_file,
                   infos, batch_i, outbox, log, exc>>
    /\ UNCHANGED <<pure_vars, server_vars, job_vars, conn_vars>>

\* The batching loop has calls left to make.
BatchesLeft == send_as_text_message /\ batch_i < Len(results)

\* One iteration of `for i in range(0, len(results), batch_limit)` (lines 118-121).
SendBatch ==
    /\ pc = "deliver"
    /\ BatchesLeft
    /\ \E outcome \in NetOutcomes :
          /\ outbox' = Append(outbox,
                 Call("sendMessage", JsonText(Slice(results, batch_i, batch_limit)), "",
                      outcome))
          /\ IF send_message_raises(outcome)
             THEN /\ pc' = "raised"
                  /\ exc' = "ConnectionError"
                  /\ UNCHANGED <<batch_i, log>>
             ELSE /\ batch_i' = batch_i + batch_limit
                  /\ log' = log \o send_message_prints(outcome)
                  /\ UNCHANGED <<pc, exc>>
    /\ UNCHANGED <<stocks, only_discount, send_as_text_message, send_as_file,
                   infos, built, results>>
    /\ UNCHANGED <<pure_vars, server_vars, job_vars, conn_vars>>

\* Lines 123-141: results[0].keys() raises IndexError on an empty list; else the
\* CSV of all rows goes out in one send_file call.
SendFile ==
    /\ pc = "deliver"
    /\ ~ BatchesLeft
    /\ send_as_file
    /\ IF results = <<>>
       THEN /\ pc' = "raised"
            /\ exc' = "IndexError"
            /\ UNCHANGED <<outbox, log>>
       ELSE \E outcome \in NetOutcomes :
            /\ outbox' = Append(outbox,
                   Call("sendDocument", CsvText(RowFields, results), ReportFilename,
                        outcome))
            /\ IF send_file_raises(outcome)
               THEN /\ pc' = "raised"
                    /\ exc' = "ConnectionError"
                    /\ UNCHANGED log
               ELSE /\ pc' = "done"
                    /\ log' = log \o send_file_prints(outcome)
                    /\ UNCHANGED exc
    /\ UNCHANGED <<stocks, only_discount, send_as_text_message, send_as_file,
                   infos, built, results, batch_i>>
    /\ UNCHANGED <<pure_vars, server_vars, job_vars, conn_vars>>

\* analyze_stocks returns without the file part when send_as_file is off.
ReturnWithoutFile ==
    /\ pc = "deliver"
    /\ ~ BatchesLeft
    /\ ~ send_as_file
    /\ pc' = "done"
    /\ UNCHANGED <<stocks, only_discount, send_as_text_message, send_as_file,
                   infos, built, results, batch_i, outbox, log, exc>>
    /\ UNCHANGED <<pure_vars, server_vars, job_vars, conn_vars>>

-----------------------------------------------------------------------------
(* The report endpoints *)

SuccessBody    == "Job has been started successfully"
StoreErrorText == "str(e) of the store's exception"
TokenErrorText == "'TELEGRAM_TOKEN'"

\* SQLDataReader.read_data / FileDataReader.read_data: every row of the store.
read_data(rows) == rows

\* read_data_by_industry: the rows whose industry is the given string.
read_data_by_industry(rows, industry) ==
    LET Matches(r) == r.industry = industry IN SelectSeq(rows, Matches)

\* The handler whose except branch returns the message instead of raising (a mutant).
report_endpoint_swallow(read_raises, has_token, all_stocks, only) ==
    IF read_raises \/ ~ has_token
    THEN [response |-> [status |-> 200, body |-> SuccessBody], scheduled |-> <<>>]
    ELSE [response |-> [status |-> 200, body |-> SuccessBody],
          scheduled |-> <<[stocks |-> all_stocks, analyzer |-> NewAnalyzer(only)]>>]

\* The body the three handlers share (lines 185-200, 204-219, 237-252): read the
\* symbols, build the collaborators (TelegramMessanger.__init__ reads
\* os.environ["TELEGRAM_TOKEN"]), add the task, answer; any exception is answered 500
\* with its text.
report_endpoint(read_raises, has_token, all_stocks, only) ==
    IF read_raises
    THEN [response |-> [status |-> 500, body |-> StoreErrorText], scheduled |-> <<>>]
    ELSE IF ~ has_token
    THEN [response |-> [status |-> 500, body |-> TokenErrorText], scheduled |-> <<>>]
    ELSE [response |-> [status |-> 200, body |-> SuccessBody],
          scheduled |-> <<[stocks |-> all_stocks, analyzer |-> NewAnalyzer(only)]>>]

Serve(req, all_stocks) ==
    LET out == report_endpoint(req.read_raises, token_set, all_stocks, req.only_discount)
    IN  /\ request = NoRequest
        /\ request' = req
        /\ response' = out.response
        /\ tasks' = tasks \o out.scheduled
        /\ UNCHANGED <<store, token_set>>
        /\ UNCHANGED <<pure_vars, run_vars, job_vars, conn_vars>>

\* GET /discounted_stocks
discounted_stocks ==
    \E raises \in BOOLEAN :
        Serve([endpoint |-> "/discounted_stocks", industry |-> "",
               only_discount |-> TRUE, read_raises |-> raises],
              read_data(store))

\* GET /all_stocks_status
all_stocks_status ==
    \E raises \in BOOLEAN :
        Serve([endpoint |-> "/all_stocks_status", industry |-> "",
               only_discount |-> FALSE, read_raises |-> raises],
              read_data(store))

RequestedIndustries == {"Information Technology", "Power", "Realty"}

\* GET /industry/{industry}
industry ==
    \E raises \in BOOLEAN, ind \in RequestedIndustries, only \in BOOLEAN :
        Serve([endpoint |-> "/industry", industry |-> ind,
               only_discount |-> only, read_raises |-> raises],
              read_data_by_industry(store, ind))

-----------------------------------------------------------------------------
(* Spec: one request to the report server and the run it schedules *)

Init ==
    /\ store \in StoreLists
    /\ token_set \in BOOLEAN
    /\ request = NoRequest
    /\ response = NoResponse
    /\ tasks = <<>>
    /\ PureIdle /\ RunIdle /\ JobIdle /\ ConnIdle

Next ==
    \/ discounted_stocks
    \/ all_stocks_status
    \/ industry
    \/ StartRun
    \/ LoopStep
    \/ FilterStep
    \/ SendFile

Spec == Init /\ [][Next]_vars

-----------------------------------------------------------------------------
(* SpecDeliver: analyze_stocks in batched-message mode, from the rows on *)

\* The longest row list delivered in the model.
MaxRows == 23

\* The snapshot every symbol of a delivered list was fetched with.
DeliveredInfo == Snapshot(Num(9), Num(10), Num(19), Num(1))

RECURSIVE BuildAll(_, _)
\* results after the loop over stock_list, each symbol fetched with the same snapshot.
BuildAll(stock_list, info) ==
    IF stock_list = <<>> THEN <<>>
    ELSE AppendRow(BuildAll(SubSeq(stock_list, 1, Len(stock_list) - 1), info),
                   stock_list[Len(stock_list)], info)

InitDeliver ==
    /\ \E n \in 0..MaxRows :
          /\ stocks = [k \in 1..n |-> StockRecord(k)]
          /\ infos = [k \in 1..n |-> DeliveredInfo]
    /\ only_discount = TRUE
    /\ send_as_text_message = TRUE
    /\ send_as_file \in BOOLEAN
    /\ built = BuildAll(stocks, DeliveredInfo)
    /\ results = FilterResults(built, only_discount)
    /\ pc = "deliver"
    /\ batch_i = 0
    /\ outbox = <<>>
    /\ log = <<>>
    /\ exc = ""
    /\ PureIdle /\ ServerIdle /\ JobIdle /\ ConnIdle

NextDeliver ==
    \/ SendBatch
    \/ SendFile
    \/ ReturnWithoutFile

SpecDeliver == InitDeliver /\ [][NextDeliver]_vars

-----------------------------------------------------------------------------
(* The ingestion job of save_stocks.py *)

\* The most rows one CSV file holds in the model.
MaxFileRows == 2

CsvColumns == {"Company Name", "Industry", "Symbol", "Series", "ISIN Code"}

\* A row as csv.DictReader gives it; the company name and the ISIN follow the symbol.
CsvRow(symbol, ind, series) ==
    [c \in CsvColumns |->
        CASE c = "Company Name" -> symbol \o " Ltd"
          [] c = "Industry"     -> ind
          [] c = "Symbol"       -> symbol
          [] c = "Series"       -> series
          [] c = "ISIN Code"    -> "INE-" \o symbol]

\* The rows the files are made of: two that share a symbol and differ in industry,
\* one that differs from the first in a column the job does not save, one other symbol.
CsvRows ==
    {CsvRow("AAA", "Power", "EQ"), CsvRow("AAA", "Realty", "EQ"),
     CsvRow("AAA", "Power", "BE"), CsvRow("BBB", "Power", "EQ")}

CsvFileContents == UNION {[1..n -> CsvRows] : n \in 0..MaxFileRows}

\* The record both savers make of a row (lines 63-66 and 77-85).
SymbolRecord(row) ==
    [symbol |-> row["Symbol"], company_name |-> row["Company Name"],
     industry |-> row["Industry"], isin |-> row["ISIN Code"]]

\* What the stocks table holds before the job runs.
TablesBefore ==
    {<<>>, <<SymbolRecord(CsvRow("AAA", "Realty", "EQ"))>>,
     <<SymbolRecord(CsvRow("BBB", "Power", "EQ"))>>}

\* process_data that returns its input (a mutant).
process_data_nodedup(data) == data

\* StockDataProcessor.process_data: a dict keyed by the sorted items of each row
\* keeps one value a key, in the order the keys first came.
process_data(data) ==
    LET First(j) == \A h \in 1..(j - 1) : data[h] # data[j]
        kept     == {j \in DOMAIN data : First(j)}
        RECURSIVE Walk(_)
        Walk(j) == IF j > Len(data) THEN <<>>
                   ELSE IF j \in kept THEN <<data[j]>> \o Walk(j + 1) ELSE Walk(j + 1)
    IN  Walk(1)

RECURSIVE InsertAll(_, _)
\* INSERT INTO stocks ... ON CONFLICT (symbol) DO NOTHING, row after row.
InsertAll(table, values) ==
    IF values = <<>> THEN table
    ELSE LET v == Head(values)
             conflict == \E j \in DOMAIN table : table[j].symbol = v.symbol
         IN  InsertAll(IF conflict THEN table ELSE Append(table, v), Tail(values))

\* DatabaseDataSaver.save_data (lines 57-69).
db_save_data(table, data) ==
    InsertAll(table, [j \in DOMAIN data |-> SymbolRecord(data[j])])

\* FileDataSaver.save_data (lines 76-92): the file is opened with mode "w".
file_save_data(data) == [j \in DOMAIN data |-> SymbolRecord(data[j])]

InitIngest ==
    /\ csv_files \in [1..2 -> CsvFileContents]
    /\ db_table \in TablesBefore
    /\ db_before = db_table
    /\ job_pc = "read"
    /\ raw_data = <<>>
    /\ processed_data = <<>>
    /\ snapshot_file = <<>>
    /\ PureIdle /\ ServerIdle /\ RunIdle /\ ConnIdle

\* CSVDataSource.get_data: the rows of every file, file after file.
GetData ==
    /\ job_pc = "read"
    /\ raw_data' = csv_files[1] \o csv_files[2]
    /\ job_pc' = "process"
    /\ UNCHANGED <<csv_files, processed_data, db_table, db_before, snapshot_file>>
    /\ UNCHANGED <<pure_vars, server_vars, run_vars, conn_vars>>

ProcessData ==
    /\ job_pc = "process"
    /\ processed_data' = process_data(raw_data)
    /\ job_pc' = "save_db"
    /\ UNCHANGED <<csv_files, raw_data, db_table, db_before, snapshot_file>>
    /\ UNCHANGED <<pure_vars, server_vars, run_vars, conn_vars>>

SaveToDatabase ==
    /\ job_pc = "save_db"
    /\ db_table' = db_save_data(db_table, processed_data)
    /\ job_pc' = "save_file"
    /\ UNCHANGED <<csv_files, raw_data, processed_data, db_before, snapshot_file>>
    /\ UNCHANGED <<pure_vars, server_vars, run_vars, conn_vars>>

SaveToFile ==
    /\ job_pc = "save_file"
    /\ snapshot_file' = file_save_data(processed_data)
    /\ job_pc' = "done"
    /\ UNCHANGED <<csv_files, raw_data, processed_data, db_table, db_before>>
    /\ UNCHANGED <<pure_vars, server_vars, run_vars, conn_vars>>

NextIngest == GetData \/ ProcessData \/ SaveToDatabase \/ SaveToFile

SpecIngest == InitIngest /\ [][NextIngest]_vars

-----------------------------------------------------------------------------
(* SpecConn: threads constructing, reading and closing SQLiteDatabaseConnection *)

\* The most connections sqlite3.connect opens in the model.
MaxConnects == 3

At(t, where) == thread_pc[t] = where
Goto(t, where) == thread_pc' = [thread_pc EXCEPT ![t] = where]

\* __new__, `with cls._lock` (line 17): the thread waits until the lock is free.
NewAcquire(t) ==
    /\ At(t, "idle")
    /\ lock_owner = 0
    /\ lock_owner' = t
    /\ got' = [got EXCEPT ![t] = "not called"]
    /\ fresh' = fresh \ {t}
    /\ Goto(t, "new_check")
    /\ UNCHANGED <<instance_set, connection, open_conns, connects, loaded>>
    /\ UNCHANGED <<pure_vars, server_vars, run_vars, job_vars>>

\* Lines 18-19: `if cls._instance is None: cls._instance = super().__new__(cls)`.
NewCheck(t) ==
    /\ At(t, "new_check")
    /\ IF instance_set
       THEN Goto(t, "new_return") /\ UNCHANGED instance_set
       ELSE Goto(t, "new_connect") /\ instance_set' = TRUE
    /\ UNCHANGED <<connection, lock_owner, open_conns, connects, loaded, fresh, got>>
    /\ UNCHANGED <<pure_vars, server_vars, run_vars, job_vars>>

\* Lines 20-26: sqlite3.connect sets cls._connection, or raises; the except branch
\* logs and raises again, and the `with` gives the lock back.
NewConnect(t) ==
    /\ At(t, "new_connect")
    /\ \/ /\ connects < MaxConnects
          /\ connects' = connects + 1
          /\ connection' = connects + 1
          /\ open_conns' = open_conns \cup {connects + 1}
          /\ Goto(t, "new_row_factory")
          /\ UNCHANGED lock_owner
       \/ /\ lock_owner' = 0
          /\ Goto(t, "idle")
          /\ UNCHANGED <<connection, open_conns, connects>>
    /\ UNCHANGED <<instance_set, loaded, fresh, got>>
    /\ UNCHANGED <<pure_vars, server_vars, run_vars, job_vars>>

\* Line 22: `cls._connection.row_factory = sqlite3.Row` loads cls._connection again;
\* on None the AttributeError takes the except branch.
NewRowFactory(t) ==
    /\ At(t, "new_row_factory")
    /\ IF connection = 0
       THEN lock_owner' = 0 /\ Goto(t, "idle")
       ELSE UNCHANGED lock_owner /\ Goto(t, "new_return")
    /\ UNCHANGED <<instance_set, connection, open_conns, connects, loaded, fresh, got>>
    /\ UNCHANGED <<pure_vars, server_vars, run_vars, job_vars>>

\* Line 27: `return cls._instance`; the construction returns normally.
NewReturn(t) ==
    /\ At(t, "new_return")
    /\ lock_owner' = 0
    /\ fresh' = fresh \cup {t}
    /\ Goto(t, "idle")
    /\ UNCHANGED <<instance_set, connection, open_conns, connects, loaded, got>>
    /\ UNCHANGED <<pure_vars, server_vars, run_vars, job_vars>>

\* get_connection, line 31: `if not cls._connection: raise RuntimeError`.
GetCheck(t) ==
    /\ At(t, "idle")
    /\ IF connection = 0
       THEN got' = [got EXCEPT ![t] = "RuntimeError"] /\ Goto(t, "idle")
       ELSE got' = [got EXCEPT ![t] = "not called"] /\ Goto(t, "get_return")
    /\ UNCHANGED <<instance_set, connection, lock_owner, open_conns, connects, loaded, fresh>>
    /\ UNCHANGED <<pure_vars, server_vars, run_vars, job_vars>>

\* get_connection, line 34: `return cls._connection`, loaded a second time.
GetReturn(t) ==
    /\ At(t, "get_return")
    /\ got' = [got EXCEPT ![t] = IF connection = 0 THEN "None"
                                 ELSE IF connection \in open_conns THEN "open"
                                 ELSE "closed"]
    /\ Goto(t, "idle")
    /\ UNCHANGED <<instance_set, connection, lock_owner, open_conns, connects, loaded, fresh>>
    /\ UNCHANGED <<pure_vars, server_vars, run_vars, job_vars>>

\* close_connection, line 38: `if cls._connection:`; the lock is not taken.
CloseCheck(t) ==
    /\ At(t, "idle")
    /\ fresh' = {}
    /\ IF connection = 0 THEN Goto(t, "idle") ELSE Goto(t, "close_load")
    /\ UNCHANGED <<instance_set, connection, lock_owner, open_conns, connects, loaded, got>>
    /\ UNCHANGED <<pure_vars, server_vars, run_vars, job_vars>>

\* Line 39, `cls._connection.close()`: the attribute is loaded, ...
CloseLoad(t) ==
    /\ At(t, "close_load")
    /\ loaded' = [loaded EXCEPT ![t] = connection]
    /\ Goto(t, "close_call")
    /\ UNCHANGED <<instance_set, connection, lock_owner, open_conns, connects, fresh, got>>
    /\ UNCHANGED <<pure_vars, server_vars, run_vars, job_vars>>

\* ... then close() is called on what was loaded (AttributeError on None).
CloseCall(t) ==
    /\ At(t, "close_call")
    /\ IF loaded[t] = 0
       THEN Goto(t, "idle") /\ UNCHANGED open_conns
       ELSE Goto(t, "close_reset_connection") /\ open_conns' = open_conns \ {loaded[t]}
    /\ loaded' = [loaded EXCEPT ![t] = 0]
    /\ UNCHANGED <<instance_set, connection, lock_owner, connects, fresh, got>>
    /\ UNCHANGED <<pure_vars, server_vars, run_vars, job_vars>>

\* Line 40: `cls._connection = None`.
CloseResetConnection(t) ==
    /\ At(t, "close_reset_connection")
    /\ connection' = 0
    /\ Goto(t, "close_reset_instance")
    /\ UNCHANGED <<instance_set, lock_owner, open_conns, connects, loaded, fresh, got>>
    /\ UNCHANGED <<pure_vars, server_vars, run_vars, job_vars>>

\* Line 41: `cls._instance = None`.
CloseResetInstance(t) ==
    /\ At(t, "close_reset_instance")
    /\ instance_set' = FALSE
    /\ Goto(t, "idle")
    /\ UNCHANGED <<connection, lock_owner, open_conns, connects, loaded, fresh, got>>
    /\ UNCHANGED <<pure_vars, server_vars, run_vars, job_vars>>

InitConn == ConnIdle /\ PureIdle /\ ServerIdle /\ RunIdle /\ JobIdle

NextConn ==
    \E t \in Threads :
        \/ NewAcquire(t)
        \/ NewCheck(t)
        \/ NewConnect(t)
        \/ NewRowFactory(t)
        \/ NewReturn(t)
        \/ GetCheck(t)
        \/ GetReturn(t)
        \/ CloseCheck(t)
        \/ CloseLoad(t)
        \/ CloseCall(t)
        \/ CloseResetConnection(t)
        \/ CloseResetInstance(t)

SpecConn == InitConn /\ [][NextConn]_vars

-----------------------------------------------------------------------------
(* Properties *)

Range(seq) == {seq[j] : j \in DOMAIN seq}

IsNumber(v) == v.t = "num"

\* The run has ended, by returning or by an exception.
RunEnded == pc \in {"done", "raised"}

\* The rows handed to the notifier so far, call after call.
RECURSIVE RowsOf(_)
RowsOf(calls) ==
    IF calls = <<>> THEN <<>> ELSE Head(calls).text.rows \o RowsOf(Tail(calls))

CallsOf(op) == LET Is(c) == c.op = op IN SelectSeq(outbox, Is)

\* C1: in file mode, a run that ends with zero report rows does not raise and
\* delivers exactly one CSV attachment whose content is the header row alone.
C1_EmptyReportSendsHeaderOnly ==
    (RunEnded /\ send_as_file /\ results = <<>>) =>
        /\ exc = ""
        /\ Len(outbox) = 1
        /\ outbox[1].op = "sendDocument"
        /\ outbox[1].text = CsvText(RowFields, <<>>)

\* C2: a snapshot whose trailing P/E is a number below 20 and whose price-to-book is
\* a number below 2 (0 and negative numbers included) is DISCOUNTED whatever the
\* discount percent.
C2_FundamentalsAlwaysDiscounted ==
    LET pe == Get(arg_info, "trailingPE")
        pb == Get(arg_info, "priceToBook")
    IN  (ret_status # "" /\ IsNumber(pe) /\ pe.n < 20 /\ IsNumber(pb) /\ pb.n < 2)
            => ret_status = "DISCOUNTED"

\* C3: with a price (the current price, or the regular-market price when the current
\* price is absent) and the 52-week high both present, a price of 0 included,
\* calculate_discount returns (high - price) / high * 100; with either missing, 0.
\* (A high of 0, where the quotient does not exist, is left open.)
C3_DiscountFormula ==
    LET cur   == Get(arg_info, "currentPrice")
        price == IF IsNumber(cur) THEN cur ELSE Get(arg_info, "regularMarketPrice")
        high  == Get(arg_info, "fiftyTwoWeekHigh")
    IN  ret_discount # NotCalled =>
            IF IsNumber(price) /\ IsNumber(high)
            THEN high.n # 0 => RatEq(ret_discount, Rat((high.n - price.n) * 100, high.n))
            ELSE ret_discount = ZeroPct

\* C4: for a discount percent <= 20, a snapshot whose trailing P/E is missing or
\* >= 20, or whose price-to-book is missing or >= 2, is FAIR/HIGH.
C4_NotDiscountedIsFairOrHigh ==
    LET pe == Get(arg_info, "trailingPE")
        pb == Get(arg_info, "priceToBook")
    IN  (/\ ret_status # ""
         /\ RatLE(arg_pct, 20)
         /\ (~ IsNumber(pe) \/ pe.n >= 20 \/ ~ IsNumber(pb) \/ pb.n >= 2))
            => ret_status = "FAIR/HIGH"

\* C4's case: a percent of exactly 20 and a missing P/E beside a low price-to-book.
C4_Witness ==
    /\ ret_status = "FAIR/HIGH"
    /\ RatEq(arg_pct, Rat(20, 1))
    /\ ~ IsNumber(Get(arg_info, "trailingPE"))
    /\ Get(arg_info, "priceToBook") = Num(1)

\* The symbols processed so far whose snapshot was not empty, in input order.
KeptIndices == {k \in DOMAIN infos : ~ IsEmptyInfo(infos[k])}
KeptIndex(j) == CHOOSE k \in KeptIndices : Cardinality({h \in KeptIndices : h <= k}) = j

\* The rows the loop has appended: results until the filter, built after it.
LoopRows == IF pc = "loop" THEN results ELSE built

\* C5: the rows built before filtering are exactly one row for each symbol whose
\* snapshot is non-empty, in the order of the input list; a failed or empty fetch
\* gives no row and the symbols after it are still processed.
C5_OneRowPerNonEmptySnapshot ==
    /\ Len(LoopRows) = Cardinality(KeptIndices)
    /\ \A j \in DOMAIN LoopRows :
          /\ LoopRows[j]["Symbol"] = stocks[KeptIndex(j)].symbol
          /\ LoopRows[j]["CompanyName"] = stocks[KeptIndex(j)].company_name
    /\ pc \in {"deliver", "done", "raised"} => Len(infos) = Len(stocks)

\* C5's case: the first fetch gave nothing, the second gave a snapshot, and the loop
\* has ended with the row of the second symbol.
C5_Witness ==
    /\ pc = "deliver"
    /\ Len(stocks) >= 2
    /\ IsEmptyInfo(infos[1])
    /\ ~ IsEmptyInfo(infos[2])
    /\ built # <<>>
    /\ built[1]["Symbol"] = stocks[2].symbol

CeilDiv(n, d) == (n + d - 1) \div d

\* C6: in batched-message mode a run over n rows sends exactly ceil(n/10) text
\* messages, each of at most 10 rows and all but the last of exactly 10, whose rows
\* in sending order are the row list.
C6_BatchesOfTen ==
    LET msgs == CallsOf("sendMessage")
    IN  (RunEnded /\ send_as_text_message) =>
            /\ Len(msgs) = CeilDiv(Len(results), batch_limit)
            /\ \A j \in DOMAIN msgs :
                  /\ Len(msgs[j].text.rows) <= batch_limit
                  /\ j < Len(msgs) => Len(msgs[j].text.rows) = batch_limit
            /\ RowsOf(msgs) = results

\* The same for the runs in which no send_message call raised.
C6_BatchesOfTenUnlessRaised ==
    (\A j \in DOMAIN outbox : outbox[j].outcome # "transport_error") => C6_BatchesOfTen

\* C8: a failure of the outbound call of send_message or send_file is logged and
\* not raised to analyze_stocks.
C8_DeliveryFailuresSwallowed ==
    \A j \in DOMAIN outbox :
        outbox[j].outcome # "ok" =>
            /\ exc # "ConnectionError"
            /\ \E l \in DOMAIN log :
                  log[l].op = outbox[j].op /\ log[l].outcome = outbox[j].outcome

StatusColumn == CHOOSE j \in DOMAIN RowFields : RowFields[j] = "Status"

\* C9: with only_discount set, every row handed to the notifier is DISCOUNTED and
\* every built DISCOUNTED row is handed over; without it every built row is.
C9_OnlyDiscountFilter ==
    LET delivered == Range(RowsOf(outbox))
    IN  RunEnded =>
            IF only_discount
            THEN /\ \A line \in delivered : line[StatusColumn] = Txt("DISCOUNTED")
                 /\ \A j \in DOMAIN built :
                       IsDiscounted(built[j]) => CsvLine(built[j], RowFields) \in delivered
            ELSE \A j \in DOMAIN built : CsvLine(built[j], RowFields) \in delivered

\* C9's case: a filtered run that built a DISCOUNTED row and a FAIR/HIGH row and
\* has sent its file.
C9_Witness ==
    /\ pc = "done"
    /\ only_discount
    /\ \E j, k \in DOMAIN built : IsDiscounted(built[j]) /\ ~ IsDiscounted(built[k])
    /\ outbox # <<>>

\* The records of the rows read, duplicates (rows equal in every field) taken once.
ReadRecords == {SymbolRecord(r) : r \in Range(raw_data)}

SymbolsOf(records) == {rec.symbol : rec \in records}

\* The record the store gets for a symbol it did not hold: that of the first row
\* read with the symbol.
FirstRecord(symbol) ==
    LET first == CHOOSE j \in DOMAIN raw_data :
                    /\ raw_data[j]["Symbol"] = symbol
                    /\ \A h \in 1..(j - 1) : raw_data[h]["Symbol"] # symbol
    IN  SymbolRecord(raw_data[first])

\* C7 as stated: whatever the CSV files hold, after the job the store and the
\* snapshot file both hold exactly the records of the deduplicated rows.  (Stated
\* for a store that was empty before the job, the case most favourable to it.)
C7_StoreAndFileHoldDedupSet ==
    (job_pc = "done" /\ db_before = <<>>) =>
        /\ Range(snapshot_file) = ReadRecords
        /\ Range(db_table) = ReadRecords

\* C7 as amended: the snapshot file holds exactly the deduplicated rows, one line a
\* distinct row; the store keeps what it held and gains, for each symbol it did not
\* hold, the record of the first row read with that symbol; the two hold the same
\* set of records when the store started empty and no two of the records read share
\* a symbol.
C7_DedupToFileInsertIfAbsentToStore ==
    job_pc = "done" =>
        /\ Range(snapshot_file) = ReadRecords
        /\ Len(snapshot_file) = Cardinality(Range(raw_data))
        /\ Range(db_table) =
              Range(db_before) \cup
              {FirstRecord(sym) : sym \in SymbolsOf(ReadRecords) \ SymbolsOf(Range(db_before))}
        /\ Len(db_table) = Cardinality(SymbolsOf(Range(db_table)))
        /\ (db_before = <<>> /\ Cardinality(SymbolsOf(ReadRecords)) = Cardinality(ReadRecords))
              => Range(db_table) = Range(snapshot_file)

\* C7's case: a row of the first file is repeated in full in the second, the store
\* started empty, and the job has written the same records to both.
C7_Witness ==
    /\ job_pc = "done"
    /\ db_before = <<>>
    /\ Range(csv_files[1]) \cap Range(csv_files[2]) # {}
    /\ Len(processed_data) < Len(raw_data)
    /\ Cardinality(ReadRecords) = 2
    /\ Range(db_table) = Range(snapshot_file)

\* C10 as stated: a request answers 500 with the exception text and schedules no
\* run when reading the symbol list raises; otherwise it schedules exactly one run
\* and answers the success message, whatever becomes of the run.
C10_AnswerFollowsStoreRead ==
    response # NoResponse =>
        IF request.read_raises
        THEN /\ response = [status |-> 500, body |-> StoreErrorText]
             /\ tasks = <<>>
             /\ pc = "idle"
        ELSE /\ response = [status |-> 200, body |-> SuccessBody]
             /\ Len(tasks) = 1

\* C10 as amended: the request answers 500 with the exception text and schedules
\* no run when reading the symbol list raises or when building the notifier raises
\* (TELEGRAM_TOKEN is not in the environment); otherwise it schedules exactly one
\* run and answers the success message, whatever becomes of the run.
C10_AnswerFollowsStoreReadAndToken ==
    response # NoResponse =>
        IF request.read_raises \/ ~ token_set
        THEN /\ response = [status |-> 500,
                            body |-> IF request.read_raises THEN StoreErrorText
                                                            ELSE TokenErrorText]
             /\ tasks = <<>>
             /\ pc = "idle"
        ELSE /\ response = [status |-> 200, body |-> SuccessBody]
             /\ Len(tasks) = 1

\* C10's case: the request was answered with the success message and the run it
\* scheduled has ended with an exception.
C10_Witness ==
    /\ pc = "raised"
    /\ response = [status |-> 200, body |-> SuccessBody]
    /\ Len(tasks) = 1

\* C11: whatever the constructions (some failing to connect), the close_connection
\* calls and their interleaving, at most one connection is held, and after a
\* construction that returned normally get_connection returns an open connection
\* (it does not raise RuntimeError) until the next close_connection call.
C11_SingletonConnection ==
    /\ Cardinality(open_conns) <= 1
    /\ \A t \in Threads : (t \in fresh /\ got[t] # "not called") => got[t] = "open"

\* The first half of C11 alone: at most one connection is open.
C11_AtMostOneOpen == Cardinality(open_conns) <= 1

=============================================================================
